---- MODULE Spec2Model ----
(***************************************************************************)
(* Order lifecycle, cart-to-order checkout and payment reconciliation of   *)
(* the WOWMANIA backend: the Order and Cart aggregates (models/Order.ts,    *)
(* models/Cart.ts), the order controller and the payment controller.       *)
(*                                                                         *)
(* The document store keeps, for every document, exactly the paths its     *)
(* schema declares: an assignment to a path the schema does not declare    *)
(* (order.status, order.paidAt, order.transactionId, ...) stays on the     *)
(* in-memory object of the request and is not written by save().  save()   *)
(* validates the document against the schema (required paths, enum, min,   *)
(* max) and rejects it, writing nothing, when validation fails.            *)
(*                                                                         *)
(* Time is counted in days.                                                *)
(***************************************************************************)
EXTENDS Integers, Sequences, FiniteSets, TLC

VARIABLES
    orders,   \* the Order collection: sequence of persisted order documents
    cart,     \* the Cart document of the customer (exists = FALSE: none yet)
    stock,    \* Product.variants[v].inventory.quantity, per variant
    now,      \* wall clock (Date.now()), in days
    last,     \* the last request: operation, argument, response
    flight    \* requests in flight: position and local variables of each

vars == <<orders, cart, stock, now, last, flight>>

----------------------------------------------------------------------------
(* Bounds *)

MaxTime == 31          \* the clock stops advancing here
MaxStock == 4          \* cancellations stop restoring stock here
MaxLines == 2          \* cart lines
MaxBodyFields == 1      \* fields one updateOrder body defines
MaxQty == 3            \* quantity of one cart line in the explored carts

----------------------------------------------------------------------------
(* Values *)

Undefined == "undefined"   \* an absent string-valued field or body property
Unset == -1                \* an absent Number or Date path

TruthyNum(x) == x # Unset /\ x # 0
TruthyStr(s) == s # Undefined /\ s # ""

\* JavaScript's `x || 0` on a Number path.
OrZero(x) == IF TruthyNum(x) THEN x ELSE 0

OrderStatuses ==
    {"pending", "confirmed", "processing", "shipped", "delivered", "cancelled", "returned"}

PaymentStatuses == {"pending", "processing", "completed", "failed", "refunded"}

PaymentMethods == {"credit_card", "debit_card", "upi", "net_banking", "wallet", "cod"}
ShippingMethods == {"standard", "express", "overnight", "same_day"}

Users == {"u1", "u2"}
Principals == { [id |-> "u1", role |-> "customer"],
                [id |-> "u2", role |-> "customer"],
                [id |-> "a1", role |-> "admin"] }

Variants == {"v1", "v2"}
NoVariant == Undefined

ReturnWindowDays == 30
\* One clock step: a day more than the return window.
TickDays == ReturnWindowDays + 1

----------------------------------------------------------------------------
(* Order aggregate: models/Order.ts *)

\* The paths of orderSchema that the operations below read or write.
OrderPaths ==
    {"userId", "items", "billingAddress", "shippingAddress", "subtotal", "tax", "shipping", "discount", "total",
     "paymentMethod", "paymentStatus", "orderStatus", "shippingMethod",
     "trackingNumber", "estimatedDelivery", "actualDelivery", "notes",
     "adminNotes", "refundReason", "refundAmount", "refundDate", "updatedAt"}

\* orderItemSchema: required paths and minimum values of a line.
OrderItemValid(item) ==
    /\ item.productId # Undefined
    /\ TruthyStr(item.name)
    /\ TruthyStr(item.sku)
    /\ item.quantity # Unset /\ item.quantity >= 1
    /\ item.price # Unset /\ item.price >= 0
    /\ item.totalPrice # Unset /\ item.totalPrice >= 0

\* Schema validation run by save(): required, enum and min validators.
OrderValid(doc) ==
    /\ doc.userId # Undefined
    /\ \A i \in 1..Len(doc.items) : OrderItemValid(doc.items[i])
    /\ doc.billingAddress # Undefined
    /\ doc.shippingAddress # Undefined
    /\ doc.subtotal # Unset /\ doc.subtotal >= 0
    /\ doc.tax >= 0 /\ doc.shipping >= 0 /\ doc.discount >= 0
    /\ doc.total # Unset /\ doc.total >= 0
    /\ doc.paymentMethod \in PaymentMethods
    /\ doc.paymentStatus \in PaymentStatuses
    /\ doc.orderStatus \in OrderStatuses
    /\ doc.shippingMethod \in ShippingMethods
    /\ (doc.refundAmount = Unset \/ doc.refundAmount >= 0)

RECURSIVE SumTotalPrice(_)
SumTotalPrice(items) ==
    IF items = <<>> THEN 0
    ELSE Head(items).totalPrice + SumTotalPrice(Tail(items))

\* The totals hook that does not look at the shipping cost for changes.
OrderTotalsHookMissesShipping(old, doc) ==
    IF \/ doc.items # old.items \/ doc.subtotal # old.subtotal
       \/ doc.tax # old.tax
       \/ doc.discount # old.discount
    THEN LET sub == IF ~TruthyNum(doc.subtotal) /\ Len(doc.items) > 0
                    THEN SumTotalPrice(doc.items) ELSE doc.subtotal
             tot == OrZero(sub) + OrZero(doc.tax) + OrZero(doc.shipping)
                      - OrZero(doc.discount)
         IN [doc EXCEPT !.subtotal = sub, !.total = IF tot < 0 THEN 0 ELSE tot]
    ELSE doc

\* pre('save') "calculate totals": runs when a financial path or the items
\* differ from the stored document (isModified).
OrderTotalsHook(old, doc) ==
    IF \/ doc.items # old.items \/ doc.subtotal # old.subtotal
       \/ doc.tax # old.tax \/ doc.shipping # old.shipping
       \/ doc.discount # old.discount
    THEN LET sub == IF ~TruthyNum(doc.subtotal) /\ Len(doc.items) > 0
                    THEN SumTotalPrice(doc.items) ELSE doc.subtotal
             tot == OrZero(sub) + OrZero(doc.tax) + OrZero(doc.shipping)
                      - OrZero(doc.discount)
         IN [doc EXCEPT !.subtotal = sub, !.total = IF tot < 0 THEN 0 ELSE tot]
    ELSE doc

\* The item hook that takes the quantity for the line total.
OrderItemsHookDropsPrice(doc) ==
    [doc EXCEPT !.items =
        [i \in 1..Len(doc.items) |->
            IF TruthyNum(doc.items[i].price) /\ TruthyNum(doc.items[i].quantity)
            THEN [doc.items[i] EXCEPT !.totalPrice = doc.items[i].quantity]
            ELSE doc.items[i]]]

\* pre('save') "update item total prices".
OrderItemsHook(doc) ==
    [doc EXCEPT !.items =
        [i \in 1..Len(doc.items) |->
            IF TruthyNum(doc.items[i].price) /\ TruthyNum(doc.items[i].quantity)
            THEN [doc.items[i] EXCEPT !.totalPrice =
                      doc.items[i].price * doc.items[i].quantity]
            ELSE doc.items[i]]]

\* document.save() of an order read from the store as `old`: keeps the
\* declared paths, validates, runs the pre-save hooks, stamps updatedAt.
\* ok = FALSE: the save rejected (ValidationError) and nothing is written.
SaveOrder(old, doc, t) ==
    LET kept == [p \in OrderPaths |-> doc[p]]
    IN IF OrderValid(kept)
       THEN [ok |-> TRUE,
             doc |-> [OrderItemsHook(OrderTotalsHook(old, kept)) EXCEPT !.updatedAt = t]]
       ELSE [ok |-> FALSE, doc |-> old]

validTransitionsSkipsShipping ==
    [pending    |-> {"confirmed", "cancelled"},
     confirmed  |-> {"processing", "cancelled"},
     processing |-> {"shipped", "delivered", "cancelled"},
     shipped    |-> {"delivered", "returned"},
     delivered  |-> {"returned"},
     cancelled  |-> {},
     returned   |-> {}]

validTransitions ==
    [pending    |-> {"confirmed", "cancelled"},
     confirmed  |-> {"processing", "cancelled"},
     processing |-> {"shipped", "cancelled"},
     shipped    |-> {"delivered", "returned"},
     delivered  |-> {"returned"},
     cancelled  |-> {},
     returned   |-> {}]

validPaymentTransitionsRefundedReopens ==
    [pending    |-> {"processing", "completed", "failed"},
     processing |-> {"completed", "failed"},
     completed  |-> {"refunded"},
     failed     |-> {"pending"},
     refunded   |-> {"pending"}]

validPaymentTransitions ==
    [pending    |-> {"processing", "completed", "failed"},
     processing |-> {"completed", "failed"},
     completed  |-> {"refunded"},
     failed     |-> {"pending"},
     refunded   |-> {}]

deliveryDays(shippingMethod) ==
    IF shippingMethod = "express" THEN 2
    ELSE IF shippingMethod = "overnight" THEN 1
    ELSE IF shippingMethod = "same_day" THEN 0 ELSE 5

\* A method result: ok = FALSE means the method threw `err` (and `doc` is the
\* stored document, untouched).
Thrown(old, err) == [ok |-> FALSE, doc |-> old, err |-> err]
Saved(old, doc, t) ==
    LET s == SaveOrder(old, doc, t)
    IN [ok |-> s.ok, doc |-> s.doc,
        err |-> IF s.ok THEN <<>> ELSE <<"ValidationError">>]

\* updateStatus that assigns before it checks the transition.
updateStatusAssignsFirst(old, newStatus, notes, t) ==
    LET d1 == [old EXCEPT !.orderStatus = newStatus]
        d2 == IF TruthyStr(notes) THEN [d1 EXCEPT !.adminNotes = notes] ELSE d1
    IN IF newStatus \notin validTransitions[old.orderStatus]
       THEN [ok |-> FALSE, doc |-> (IF OrderValid(d2) THEN d2 ELSE old),
             err |-> <<"Invalid status transition", old.orderStatus, newStatus>>]
       ELSE Saved(old, d2, t)

\* orderSchema.methods.updateStatus
updateStatus(old, newStatus, notes, t) ==
    LET currentStatus == old.orderStatus
        allowedTransitions == validTransitions[currentStatus]
    IN IF newStatus \notin allowedTransitions
       THEN Thrown(old, <<"Invalid status transition", currentStatus, newStatus>>)
       ELSE LET d1 == [old EXCEPT !.orderStatus = newStatus]
                d2 == IF TruthyStr(notes) THEN [d1 EXCEPT !.adminNotes = notes] ELSE d1
                d3 == IF newStatus = "processing"
                      THEN [d2 EXCEPT !.estimatedDelivery = t + deliveryDays(d2.shippingMethod)]
                      ELSE d2
                d4 == IF newStatus = "delivered"
                      THEN [d3 EXCEPT !.actualDelivery = t]
                      ELSE d3
            IN Saved(old, d4, t)

\* orderSchema.methods.updatePaymentStatus
updatePaymentStatus(old, newStatus, t) ==
    LET currentStatus == old.paymentStatus
        allowedTransitions == validPaymentTransitions[currentStatus]
    IN IF newStatus \notin allowedTransitions
       THEN Thrown(old, <<"Invalid payment status transition", currentStatus, newStatus>>)
       ELSE Saved(old, [old EXCEPT !.paymentStatus = newStatus], t)

\* orderSchema.methods.addTracking (the controller passes no estimatedDelivery)
addTracking(old, trackingNumber, t) ==
    Saved(old, [old EXCEPT !.trackingNumber = trackingNumber], t)

\* processRefund without the comparison of the amount with the total.
processRefundUnchecked(old, amount, reason, t) ==
    IF TruthyNum(old.refundAmount)
    THEN Thrown(old, <<"Refund already processed for this order">>)
    ELSE Saved(old, [old EXCEPT !.refundAmount = amount,
                                !.refundReason = reason,
                                !.refundDate = t,
                                !.orderStatus = "returned"], t)

\* orderSchema.methods.processRefund
processRefund(old, amount, reason, t) ==
    IF amount > old.total
    THEN Thrown(old, <<"Refund amount cannot exceed order total">>)
    ELSE IF TruthyNum(old.refundAmount)
    THEN Thrown(old, <<"Refund already processed for this order">>)
    ELSE Saved(old, [old EXCEPT !.refundAmount = amount,
                                !.refundReason = reason,
                                !.refundDate = t,
                                !.orderStatus = "returned"], t)

\* baseShippingCosts[this.shippingMethod] || 100 of the order
orderBaseShippingCosts(shippingMethod) ==
    IF shippingMethod = "standard" THEN 100
    ELSE IF shippingMethod = "express" THEN 200
    ELSE IF shippingMethod = "overnight" THEN 500
    ELSE IF shippingMethod = "same_day" THEN 800
    ELSE 100

RECURSIVE orderTotalWeight(_)
orderTotalWeight(items) ==
    IF items = <<>> THEN 0
    ELSE OrZero(Head(items).quantity) + orderTotalWeight(Tail(items))

\* orderSchema.methods.calculateShipping
orderCalculateShipping(old, t) ==
    Saved(old, [old EXCEPT !.shipping =
                    orderBaseShippingCosts(old.shippingMethod)
                        + orderTotalWeight(old.items) * 10], t)

\* orderSchema.virtual('isRefundable')
isRefundable(doc, t) ==
    IF doc.orderStatus # "delivered" THEN FALSE
    ELSE IF TruthyNum(doc.refundAmount) THEN FALSE
    ELSE LET deliveryDate == IF doc.actualDelivery # Unset
                             THEN doc.actualDelivery ELSE doc.updatedAt
         IN t - deliveryDate <= ReturnWindowDays

----------------------------------------------------------------------------
(* Cart aggregate: models/Cart.ts *)

MaxCartQuantity == 99

\* cartItemSchema: required paths, min and max validators of a line.
CartItemValid(item) ==
    /\ item.productId # Undefined
    /\ item.quantity # Unset /\ item.quantity >= 1 /\ item.quantity <= MaxCartQuantity
    /\ item.price # Unset /\ item.price >= 0
    /\ item.totalPrice # Unset /\ item.totalPrice >= 0

\* Schema validation of a cart run by save().
CartValid(doc) ==
    /\ doc.userId # Undefined
    /\ \A i \in 1..Len(doc.items) : CartItemValid(doc.items[i])
    /\ doc.subtotal >= 0 /\ doc.tax >= 0 /\ doc.shipping >= 0
    /\ doc.discount >= 0 /\ doc.total >= 0 /\ doc.couponDiscount >= 0

\* The totals hook without the coupon discount in the total.
CartTotalsHookIgnoresCoupon(old, doc) ==
    IF \/ doc.items # old.items \/ doc.subtotal # old.subtotal
       \/ doc.tax # old.tax \/ doc.shipping # old.shipping
       \/ doc.discount # old.discount \/ doc.couponDiscount # old.couponDiscount
    THEN LET sub == SumTotalPrice(doc.items)
             tot == sub + doc.tax + doc.shipping - doc.discount
         IN [doc EXCEPT !.subtotal = sub, !.total = IF tot < 0 THEN 0 ELSE tot]
    ELSE doc

\* pre('save') "calculate totals" of the cart.
CartTotalsHook(old, doc) ==
    IF \/ doc.items # old.items \/ doc.subtotal # old.subtotal
       \/ doc.tax # old.tax \/ doc.shipping # old.shipping
       \/ doc.discount # old.discount \/ doc.couponDiscount # old.couponDiscount
    THEN LET sub == SumTotalPrice(doc.items)
             tot == sub + doc.tax + doc.shipping - doc.discount - doc.couponDiscount
         IN [doc EXCEPT !.subtotal = sub, !.total = IF tot < 0 THEN 0 ELSE tot]
    ELSE doc

\* pre('save') "update item total prices" of the cart.
CartItemsHook(doc) ==
    [doc EXCEPT !.items =
        [i \in 1..Len(doc.items) |->
            IF TruthyNum(doc.items[i].price) /\ TruthyNum(doc.items[i].quantity)
            THEN [doc.items[i] EXCEPT !.totalPrice =
                      doc.items[i].price * doc.items[i].quantity]
            ELSE doc.items[i]]]

\* document.save() of the cart (a new cart is stored by its first save).
SaveCart(old, doc) ==
    IF CartValid(doc)
    THEN [ok |-> TRUE, doc |-> [CartItemsHook(CartTotalsHook(old, doc)) EXCEPT !.exists = TRUE]]
    ELSE [ok |-> FALSE, doc |-> old]

\* new Cart({ userId }): schema defaults.
NewCart(userId) ==
    [exists |-> FALSE, userId |-> userId, items |-> <<>>,
     subtotal |-> 0, tax |-> 0, shipping |-> 0, discount |-> 0, total |-> 0,
     couponCode |-> Undefined, couponDiscount |-> 0]

\* cartSchema.virtual('isEmpty')
isEmpty(doc) == Len(doc.items) = 0

\* The _id given to a pushed subdocument: one no line of the cart carries.
FreshItemId(items) ==
    CHOOSE n \in 1..(Len(items) + 1) : \A i \in 1..Len(items) : items[i].id # n

\* addItem that appends a line without looking for the pair.
addItemAlwaysAppends(old, productId, variantId, quantity, price) ==
    SaveCart(old, [old EXCEPT !.items = Append(old.items,
                       [id |-> FreshItemId(old.items),
                        productId |-> productId, variantId |-> variantId,
                        quantity |-> quantity, price |-> price,
                        totalPrice |-> price * quantity])])

\* cartSchema.methods.addItem
addItem(old, productId, variantId, quantity, price) ==
    LET existing == { i \in 1..Len(old.items) :
                        /\ old.items[i].productId = productId
                        /\ old.items[i].variantId = variantId }
    IN IF existing # {}
       THEN LET i == CHOOSE j \in existing : \A k \in existing : j <= k
                q == old.items[i].quantity + quantity
            IN SaveCart(old, [old EXCEPT !.items[i].quantity = q,
                                         !.items[i].totalPrice = old.items[i].price * q])
       ELSE SaveCart(old, [old EXCEPT !.items = Append(old.items,
                               [id |-> FreshItemId(old.items),
                                productId |-> productId, variantId |-> variantId,
                                quantity |-> quantity, price |-> price,
                                totalPrice |-> price * quantity])])

\* cartSchema.methods.clearCart
clearCart(old) ==
    SaveCart(old, [old EXCEPT !.items = <<>>, !.subtotal = 0, !.tax = 0,
                              !.shipping = 0, !.discount = 0, !.couponDiscount = 0,
                              !.total = 0, !.couponCode = Undefined])

\* cartSchema.methods.applyCoupon
applyCoupon(old, couponCode, discountAmount) ==
    IF discountAmount > old.subtotal
    THEN [ok |-> FALSE, doc |-> old]
    ELSE SaveCart(old, [old EXCEPT !.couponCode = couponCode,
                                   !.couponDiscount = discountAmount])

\* updateItemQuantity whose cap excludes the cap itself.
updateItemQuantityBelowCap(old, itemId, quantity) ==
    IF quantity <= 0 THEN [ok |-> FALSE, doc |-> old]
    ELSE IF quantity >= MaxCartQuantity THEN [ok |-> FALSE, doc |-> old]
    ELSE LET found == { i \in 1..Len(old.items) : old.items[i].id = itemId }
         IN IF found = {}
            THEN [ok |-> FALSE, doc |-> old]
            ELSE LET i == CHOOSE j \in found : TRUE
                 IN SaveCart(old, [old EXCEPT !.items[i].quantity = quantity,
                                              !.items[i].totalPrice = old.items[i].price * quantity])

\* cartSchema.methods.updateItemQuantity
updateItemQuantity(old, itemId, quantity) ==
    IF quantity <= 0 THEN [ok |-> FALSE, doc |-> old]
    ELSE IF quantity > MaxCartQuantity THEN [ok |-> FALSE, doc |-> old]
    ELSE LET found == { i \in 1..Len(old.items) : old.items[i].id = itemId }
         IN IF found = {}
            THEN [ok |-> FALSE, doc |-> old]
            ELSE LET i == CHOOSE j \in found : TRUE
                 IN SaveCart(old, [old EXCEPT !.items[i].quantity = quantity,
                                              !.items[i].totalPrice = old.items[i].price * quantity])

\* cartSchema.methods.removeItem
removeItem(old, itemId) ==
    SaveCart(old, [old EXCEPT !.items = SelectSeq(old.items, LAMBDA item : item.id # itemId)])

\* cartSchema.methods.removeCoupon
removeCoupon(old) ==
    SaveCart(old, [old EXCEPT !.couponCode = Undefined, !.couponDiscount = 0])

\* cartSchema.methods.calculateTax.  The explored subtotals and rates keep
\* subtotal * taxRate / 100 a whole number.
calculateTax(old, taxRate) ==
    IF taxRate < 0 \/ taxRate > 100
    THEN [ok |-> FALSE, doc |-> old]
    ELSE SaveCart(old, [old EXCEPT !.tax = (old.subtotal * taxRate) \div 100])

\* baseShippingCosts[shippingMethod] || 100
baseShippingCosts(shippingMethod) ==
    IF shippingMethod = "standard" THEN 100
    ELSE IF shippingMethod = "express" THEN 200
    ELSE IF shippingMethod = "overnight" THEN 500
    ELSE IF shippingMethod = "same_day" THEN 800
    ELSE 100

RECURSIVE totalWeight(_)
totalWeight(items) ==
    IF items = <<>> THEN 0 ELSE OrZero(Head(items).quantity) + totalWeight(Tail(items))

\* cartSchema.methods.calculateShipping
calculateShipping(old, shippingMethod) ==
    SaveCart(old, [old EXCEPT !.shipping =
                       baseShippingCosts(shippingMethod) + totalWeight(old.items) * 10])

\* cartSchema.methods.validateItems: the list of violations (an array).
validateItems(doc) ==
    LET lineErrors(item) ==
            (IF item.quantity <= 0 THEN <<"Invalid quantity">> ELSE <<>>)
            \o (IF item.price < 0 THEN <<"Invalid price">> ELSE <<>>)
            \o (IF item.totalPrice # item.price * item.quantity
                THEN <<"Price mismatch">> ELSE <<>>)
        RECURSIVE collect(_)
        collect(items) == IF items = <<>> THEN <<>>
                          ELSE lineErrors(Head(items)) \o collect(Tail(items))
    IN collect(doc.items)

----------------------------------------------------------------------------
(* Requests and responses *)

\* Assignment to a property of the in-memory document.  A property outside
\* the schema is kept on the object and dropped by save().
SetProp(doc, name, value) ==
    [p \in (DOMAIN doc) \cup {name} |-> IF p = name THEN value ELSE doc[p]]

NoOrder == 0
OrderIds == 1..Len(orders)

\* What the request left behind: the handler, its main argument, the HTTP
\* status of the response and the order the handler loaded (NoOrder: none).
\* `err` is the error the handler threw; the response keeps its status only.
Response(op, arg, code, err, target) ==
    [op |-> op, arg |-> arg, code |-> code, target |-> target]

\* errorHandler: an AppError carries its status, a Mongoose ValidationError
\* becomes 400, any other Error 500.
StatusOf(err) ==
    IF err = <<>> THEN 200
    ELSE IF Head(err) = "ValidationError" THEN 400
    ELSE 500

\* Values of a status in a request body: the schema's and the route
\* validators' (routes/order.ts).
StatusInputs == OrderStatuses \cup {"refunded"}
PaymentStatusInputs == PaymentStatuses \cup {"paid", "partially_refunded"}
NotesInputs == {Undefined, "n1"}
RefundAmounts == {50, 150}

----------------------------------------------------------------------------
(* Initial state *)

\* An order as the store holds it right after its creation: the schema
\* defaults for both statuses, one line of a variant.
\* The handlers that run at the same time: each is suspended at an await
\* until the event loop resumes it.
Requests == {1, 2}

\* No handler running in the slot.  A running handler keeps its position
\* (pc) and its local variables: the request body, the cart document it
\* loaded (doc), validationResults, the order it saved, the product it read
\* for the line `line` of the inventory loop, and at the end its status code.
IdleRequest ==
    [op |-> "none", pc |-> "idle", userId |-> Undefined, body |-> <<>>,
     doc |-> NewCart(Undefined), validationResults |-> <<>>, order |-> NoOrder,
     line |-> 0, product |-> <<>>, code |-> 0]

\* The quantity on hand of each variant once the stored order was placed.
InitStock == [v \in Variants |-> 2]

InitOrder ==
    [userId |-> "u1",
     items |-> << [productId |-> "p1", variantId |-> "v1", name |-> "saree",
                   sku |-> "S1", quantity |-> 1, price |-> 100, totalPrice |-> 100] >>,
     billingAddress |-> "addr1", shippingAddress |-> "addr1",
     subtotal |-> 100, tax |-> 0, shipping |-> 0, discount |-> 0, total |-> 100,
     paymentMethod |-> "upi", paymentStatus |-> "pending", orderStatus |-> "pending",
     shippingMethod |-> "standard", trackingNumber |-> Undefined,
     estimatedDelivery |-> Unset, actualDelivery |-> Unset,
     notes |-> Undefined, adminNotes |-> Undefined,
     refundReason |-> Undefined, refundAmount |-> Unset, refundDate |-> Unset,
     updatedAt |-> 0]

Init ==
    /\ orders = << InitOrder >>
    /\ cart = NewCart("u1")
    /\ stock = InitStock
    /\ now = 0
    /\ last = Response("none", Undefined, 0, <<>>, NoOrder)
    /\ flight = [r \in Requests |-> IdleRequest]

----------------------------------------------------------------------------
(* Order controller *)

\* updateOrderStatus
UpdateOrderStatus ==
    \E id \in OrderIds \cup {NoOrder} :
        /\ UNCHANGED <<cart, stock, now, flight>>
        /\ IF id = NoOrder
           THEN /\ UNCHANGED orders
                /\ last' = Response("updateOrderStatus", Undefined, 404, <<"Order not found">>, NoOrder)
           ELSE \E status \in StatusInputs, notes \in NotesInputs :
                  LET r == updateStatus(orders[id], status, notes, now)
                  IN /\ orders' = [orders EXCEPT ![id] = r.doc]
                     /\ last' = Response("updateOrderStatus", Undefined, StatusOf(r.err), r.err, id)

\* updatePaymentStatus
UpdatePaymentStatus ==
    \E id \in OrderIds \cup {NoOrder} :
        /\ UNCHANGED <<cart, stock, now, flight>>
        /\ IF id = NoOrder
           THEN /\ UNCHANGED orders
                /\ last' = Response("updatePaymentStatus", Undefined, 404, <<"Order not found">>, NoOrder)
           ELSE \E paymentStatus \in PaymentStatusInputs :
                  LET r == updatePaymentStatus(orders[id], paymentStatus, now)
                  IN /\ orders' = [orders EXCEPT ![id] = r.doc]
                     /\ last' = Response("updatePaymentStatus", Undefined, StatusOf(r.err), r.err, id)

\* Object.assign(order, filteredUpdates): every allowed field the body defines.
AssignUpdates(doc, body) ==
    LET allowedUpdates == <<"status", "paymentStatus", "shippingMethod", "trackingNumber", "notes">>
        RECURSIVE assign(_, _)
        assign(d, fields) ==
            IF fields = <<>> THEN d
            ELSE assign(IF body[Head(fields)] # Undefined
                        THEN SetProp(d, Head(fields), body[Head(fields)])
                        ELSE d,
                        Tail(fields))
    IN assign(doc, allowedUpdates)

\* Request bodies of updateOrder: at most MaxBodyFields of the fields defined.
UpdateBodies ==
    { b \in [status : {Undefined, "returned", "cancelled"},
             paymentStatus : {Undefined} \cup PaymentStatusInputs,
             shippingMethod : {Undefined, "express", "teleport"},
             trackingNumber : {Undefined, "T1"},
             notes : NotesInputs] :
        Cardinality({ f \in DOMAIN b : b[f] # Undefined }) <= MaxBodyFields }

\* updateOrder
UpdateOrder ==
    \E id \in OrderIds \cup {NoOrder} :
        /\ UNCHANGED <<cart, stock, now, flight>>
        /\ IF id = NoOrder
           THEN /\ UNCHANGED orders
                /\ last' = Response("updateOrder", Undefined, 404, <<"Order not found">>, NoOrder)
           ELSE \E body \in UpdateBodies :
                LET r == Saved(orders[id], AssignUpdates(orders[id], body), now)
                IN /\ orders' = [orders EXCEPT ![id] = r.doc]
                   /\ last' = Response("updateOrder", Undefined, StatusOf(r.err), r.err, id)

\* addTracking
AddTracking ==
    \E id \in OrderIds \cup {NoOrder}, trackingNumber \in {"T1"} :
        /\ UNCHANGED <<cart, stock, now, flight>>
        /\ IF id = NoOrder
           THEN /\ UNCHANGED orders
                /\ last' = Response("addTracking", Undefined, 404, <<"Order not found">>, NoOrder)
           ELSE LET r == addTracking(orders[id], trackingNumber, now)
                IN /\ orders' = [orders EXCEPT ![id] = r.doc]
                   /\ last' = Response("addTracking", Undefined, StatusOf(r.err), r.err, id)

\* The inventory loops of createOrder and cancelOrder: every line that has a
\* variantId moves its variant's quantity by sign * line quantity.
RECURSIVE AdjustInventory(_, _, _)
AdjustInventory(st, items, sign) ==
    IF items = <<>> THEN st
    ELSE LET item == Head(items)
             st1 == IF item.variantId # NoVariant /\ item.variantId \in DOMAIN st
                    THEN [st EXCEPT ![item.variantId] = @ + sign * item.quantity]
                    ELSE st
         IN AdjustInventory(st1, Tail(items), sign)

\* cancelOrder
CancelOrder ==
    \E who \in Principals, id \in OrderIds \cup {NoOrder} :
        /\ UNCHANGED <<cart, now, flight>>
        /\ IF id = NoOrder \/ (who.role # "admin" /\ orders[id].userId # who.id)
           THEN /\ UNCHANGED <<orders, stock>>
                /\ last' = Response("cancelOrder", Undefined, 404, <<"Order not found">>, NoOrder)
           ELSE IF ~isRefundable(orders[id], now)
           THEN /\ UNCHANGED <<orders, stock>>
                /\ last' = Response("cancelOrder", Undefined, 400,
                                    <<"Order cannot be cancelled at this stage">>, id)
           ELSE LET d1 == SetProp(orders[id], "status", "cancelled")
                    d2 == SetProp(d1, "cancelledAt", now)
                    d3 == SetProp(d2, "cancellationReason", "r1")
                    d4 == SetProp(d3, "cancelledBy", who.id)
                    r == Saved(orders[id], d4, now)
                IN IF ~r.ok
                   THEN /\ UNCHANGED <<orders, stock>>
                        /\ last' = Response("cancelOrder", Undefined, 400, r.err, id)
                   ELSE /\ \A v \in Variants :
                              AdjustInventory(stock, r.doc.items, 1)[v] <= MaxStock
                        /\ orders' = [orders EXCEPT ![id] = r.doc]
                        /\ stock' = AdjustInventory(stock, r.doc.items, 1)
                        /\ last' = Response("cancelOrder", Undefined, 200, <<>>, id)

\* processRefund of the order controller
OrderProcessRefund ==
    \E id \in OrderIds \cup {NoOrder} :
        /\ UNCHANGED <<cart, stock, now, flight>>
        /\ IF id = NoOrder
           THEN /\ UNCHANGED orders
                /\ last' = Response("orderProcessRefund", Undefined, 404, <<"Order not found">>, NoOrder)
           ELSE IF orders[id].paymentStatus # "completed"
           THEN /\ UNCHANGED orders
                /\ last' = Response("orderProcessRefund", Undefined, 400,
                       <<"Order payment status must be completed to process refund">>, id)
           ELSE \E amount \in RefundAmounts :
                  LET r == processRefund(orders[id], amount, "damaged", now)
                  IN /\ orders' = [orders EXCEPT ![id] = r.doc]
                     /\ last' = Response("orderProcessRefund", amount, StatusOf(r.err), r.err, id)

\* Order.calculateShipping on a stored order
OrderCalculateShipping ==
    \E id \in OrderIds :
        LET r == orderCalculateShipping(orders[id], now)
        IN /\ orders' = [orders EXCEPT ![id] = r.doc]
           /\ last' = Response("Order.calculateShipping", Undefined,
                               StatusOf(r.err), r.err, id)
           /\ UNCHANGED <<cart, stock, now, flight>>

\* The wall clock advances.
Tick ==
    /\ now + TickDays <= MaxTime
    /\ now' = now + TickDays
    /\ last' = Response("tick", Undefined, 0, <<>>, NoOrder)
    /\ UNCHANGED <<orders, cart, stock, flight>>

NextStatus ==
    \/ UpdateOrderStatus
    \/ UpdatePaymentStatus
    \/ Tick

NextOrder ==
    \/ UpdateOrderStatus
    \/ UpdatePaymentStatus
    \/ UpdateOrder
    \/ AddTracking
    \/ CancelOrder
    \/ OrderProcessRefund

----------------------------------------------------------------------------
(* Payment controller: controllers/paymentController.ts *)

\* Reading a property of the in-memory document; a property the schema does
\* not declare is undefined on a document loaded from the store.
GetProp(doc, name) == IF name \in DOMAIN doc THEN doc[name] ELSE Undefined

\* Order.findOne with a filter on a path the schema does not declare
\* (paymentIntentId, transactionId).  The store holds no such path; whether
\* the filter key is dropped (the query then matches on the rest of the
\* filter) or sent to the store (no document matches) is decided by the
\* query strictness of the installed ODM: either outcome.
FindByUndeclaredPath(rest) == {NoOrder} \cup rest

StripeOutcomes == {"throws", "succeeded", "requires_action"}

\* body.paymentMethod of createPaymentIntent: optional, any string.
IntentPaymentMethods == {Undefined, "upi", "card"}

\* createPaymentIntent.  arg.called: stripe.paymentIntents.create was called.
CreatePaymentIntent ==
    \E who \in Principals, id \in OrderIds \cup {NoOrder},
       paymentMethod \in IntentPaymentMethods, outcome \in {"throws", "created"} :
        /\ UNCHANGED <<cart, stock, now, flight>>
        /\ IF id = NoOrder \/ orders[id].userId # who.id
           THEN /\ UNCHANGED orders
                /\ last' = Response("createPaymentIntent", [called |-> FALSE], 404,
                                    <<"Order not found">>, NoOrder)
           ELSE IF orders[id].paymentStatus = "paid"
           THEN /\ UNCHANGED orders
                /\ last' = Response("createPaymentIntent", [called |-> FALSE], 400,
                                    <<"Order is already paid">>, id)
           ELSE IF GetProp(orders[id], "status") = "cancelled"
           THEN /\ UNCHANGED orders
                /\ last' = Response("createPaymentIntent", [called |-> FALSE], 400,
                                    <<"Cannot process payment for cancelled order">>, id)
           ELSE IF outcome = "throws"
           THEN /\ UNCHANGED orders
                /\ last' = Response("createPaymentIntent", [called |-> TRUE], 400,
                                    <<"Failed to create payment intent">>, id)
           ELSE LET d1 == SetProp(orders[id], "paymentIntentId", "pi_1")
                    d2 == [d1 EXCEPT !.paymentMethod = paymentMethod]
                    r == Saved(orders[id], d2, now)
                IN IF r.ok
                   THEN /\ orders' = [orders EXCEPT ![id] = r.doc]
                        /\ last' = Response("createPaymentIntent", [called |-> TRUE], 200, <<>>, id)
                   ELSE /\ UNCHANGED orders
                        /\ last' = Response("createPaymentIntent", [called |-> TRUE], 400,
                                            <<"Failed to create payment intent">>, id)

\* confirmPayment that marks the order failed when the processor does not
\* report success.
ConfirmPaymentRecordsFailure ==
    \E outcome \in StripeOutcomes, id \in OrderIds :
        /\ UNCHANGED <<cart, stock, now, flight>>
        /\ orders' = IF outcome # "succeeded"
                     THEN [orders EXCEPT ![id].paymentStatus = "failed"]
                     ELSE orders
        /\ last' = Response("confirmPayment", outcome, 400, <<"Failed to confirm payment">>, NoOrder)

\* confirmPayment
ConfirmPayment ==
    \E outcome \in StripeOutcomes :
        /\ UNCHANGED <<cart, stock, now, flight>>
        /\ IF outcome = "throws"
           THEN /\ UNCHANGED orders
                /\ last' = Response("confirmPayment", outcome, 400, <<"Failed to confirm payment">>, NoOrder)
           ELSE IF outcome # "succeeded"
           THEN /\ UNCHANGED orders
                /\ last' = Response("confirmPayment", outcome, 400, <<"Failed to confirm payment">>, NoOrder)
           ELSE \E who \in Principals :
                \E id \in FindByUndeclaredPath({ i \in OrderIds : orders[i].userId = who.id }) :
                IF id = NoOrder
                THEN /\ UNCHANGED orders
                     /\ last' = Response("confirmPayment", outcome, 400, <<"Failed to confirm payment">>, NoOrder)
                ELSE LET d1 == SetProp(orders[id], "paymentStatus", "paid")
                    d2 == SetProp(d1, "paidAt", now)
                    d3 == SetProp(d2, "transactionId", "ch_1")
                    r == Saved(orders[id], d3, now)
                IN IF r.ok
                   THEN /\ orders' = [orders EXCEPT ![id] = r.doc]
                        /\ last' = Response("confirmPayment", outcome, 200, <<>>, id)
                   ELSE /\ UNCHANGED orders
                        /\ last' = Response("confirmPayment", outcome, 400,
                                            <<"Failed to confirm payment">>, id)

\* A handler result: the order document to store (or none) and whether the
\* handler threw.
Handled(id, doc, threw) == [id |-> id, doc |-> doc, threw |-> threw]

\* handlePaymentSucceeded
handlePaymentSucceeded(id, t) ==
    IF id = NoOrder THEN Handled(NoOrder, InitOrder, FALSE)
    ELSE LET d1 == SetProp(orders[id], "paymentStatus", "paid")
             d2 == SetProp(d1, "paidAt", t)
             d3 == SetProp(d2, "transactionId", "ch_1")
             r == Saved(orders[id], d3, t)
         IN Handled(id, r.doc, ~r.ok)

\* handlePaymentFailed
handlePaymentFailed(id, t) ==
    IF id = NoOrder THEN Handled(NoOrder, InitOrder, FALSE)
    ELSE LET d1 == SetProp(orders[id], "paymentStatus", "failed")
             d2 == SetProp(d1, "paymentFailureReason", "declined")
             r == Saved(orders[id], d2, t)
         IN Handled(id, r.doc, ~r.ok)

\* handleChargeRefunded: order.refunds is not a path of the schema, so
\* order.refunds.push throws a TypeError before anything is assigned.
handleChargeRefunded(id, t) ==
    IF id = NoOrder THEN Handled(NoOrder, InitOrder, FALSE)
    ELSE IF GetProp(orders[id], "refunds") = Undefined
    THEN Handled(id, orders[id], TRUE)
    ELSE LET d1 == SetProp(orders[id], "paymentStatus", "refunded")
             r == Saved(orders[id], d1, t)
         IN Handled(id, r.doc, ~r.ok)

EventTypes ==
    {"payment_intent.succeeded", "payment_intent.payment_failed", "charge.refunded",
     "customer.created"}

\* constructEvent that accepts any signature.
constructEventUnverified(signed) == TRUE

\* stripe.webhooks.constructEvent: throws unless the signature verifies.
constructEvent(signed) == signed

\* The switch of handleWebhook: the handler an event type is dispatched to.
handlerOf(type) ==
    IF type = "payment_intent.succeeded" THEN "handlePaymentSucceeded"
    ELSE IF type = "payment_intent.payment_failed" THEN "handlePaymentFailed"
    ELSE IF type = "charge.refunded" THEN "handleChargeRefunded"
    ELSE "none"

\* handleWebhook
HandleWebhook ==
    \E signed \in BOOLEAN, type \in EventTypes :
        /\ UNCHANGED <<cart, stock, now, flight>>
        /\ IF ~constructEvent(signed)
           THEN /\ UNCHANGED orders
                /\ last' = Response("handleWebhook",
                                    [signed |-> signed, type |-> type, handler |-> "none"],
                                    400, <<"Webhook Error">>, NoOrder)
           ELSE \E id \in FindByUndeclaredPath(OrderIds) :
                LET h == handlerOf(type)
                    r == IF h = "handlePaymentSucceeded" THEN handlePaymentSucceeded(id, now)
                         ELSE IF h = "handlePaymentFailed" THEN handlePaymentFailed(id, now)
                         ELSE IF h = "handleChargeRefunded" THEN handleChargeRefunded(id, now)
                         ELSE Handled(NoOrder, InitOrder, FALSE)
                IN /\ orders' = IF r.id = NoOrder THEN orders
                                ELSE [orders EXCEPT ![r.id] = r.doc]
                   /\ last' = Response("handleWebhook",
                                       [signed |-> signed, type |-> type, handler |-> h],
                                       IF r.threw THEN 500 ELSE 200,
                                       IF r.threw THEN <<"Webhook processing failed">> ELSE <<>>,
                                       r.id)

\* processRefund of the payment controller
PaymentProcessRefund ==
    \E who \in Principals, id \in OrderIds \cup {NoOrder} :
        /\ UNCHANGED <<cart, stock, now, flight>>
        /\ IF id = NoOrder \/ orders[id].userId # who.id
           THEN /\ UNCHANGED orders
                /\ last' = Response("paymentProcessRefund", Undefined, 404, <<"Order not found">>, NoOrder)
           ELSE IF orders[id].paymentStatus # "paid"
           THEN /\ UNCHANGED orders
                /\ last' = Response("paymentProcessRefund", Undefined, 400,
                                    <<"Order must be paid to process refund">>, id)
           ELSE IF ~TruthyStr(GetProp(orders[id], "transactionId"))
           THEN /\ UNCHANGED orders
                /\ last' = Response("paymentProcessRefund", Undefined, 400,
                                    <<"No transaction ID found for this order">>, id)
           ELSE \E amount \in RefundAmounts, outcome \in {"throws", "succeeded"} :
                IF outcome = "throws" \/ GetProp(orders[id], "refunds") = Undefined
                THEN /\ UNCHANGED orders
                     /\ last' = Response("paymentProcessRefund", outcome, 400,
                                         <<"Failed to process refund">>, id)
                ELSE LET r == Saved(orders[id], SetProp(orders[id], "paymentStatus", "refunded"), now)
                IN /\ orders' = [orders EXCEPT ![id] = r.doc]
                   /\ last' = Response("paymentProcessRefund", outcome,
                                       IF r.ok THEN 200 ELSE 400, r.err, id)

----------------------------------------------------------------------------
(* Cart operations (models/Cart.ts) and checkout (createOrder) *)

Products == {"p1"}
Prices == {0, 50}
Quantities == {1, 2}
CouponAmounts == {10, 200}

\* The cart document a request of `userId` works on: Cart.findOne({ userId }),
\* or a new Cart when there is none.
CartOf(userId) ==
    IF cart.exists /\ cart.userId = userId THEN cart ELSE NewCart(userId)

\* Cart.addItem on the customer's cart, with the arguments drawn from the
\* given sets.
CartAddItemOf(variantIds, quantities, prices) ==
    \E productId \in Products, variantId \in variantIds,
       quantity \in quantities, price \in prices :
        LET r == addItem(CartOf("u1"), productId, variantId, quantity, price)
        IN /\ Len(r.doc.items) <= MaxLines
           /\ \A i \in 1..Len(r.doc.items) :
                 r.doc.items[i].quantity \in (1..MaxQty) \cup {MaxCartQuantity}
           /\ cart' = r.doc
           /\ last' = Response("Cart.addItem", quantity, IF r.ok THEN 200 ELSE 400,
                               IF r.ok THEN <<>> ELSE <<"ValidationError">>, NoOrder)
           /\ UNCHANGED <<orders, stock, now, flight>>

\* Cart.addItem during checkout sessions: any variant, quantity and price.
CartAddItem == CartAddItemOf(Variants \cup {NoVariant}, Quantities, Prices)

\* Cart.addItem of single units of one product, with or without a variant.
CartAddUnit == CartAddItemOf({"v1", NoVariant}, {1}, {50})

\* Cart.applyCoupon on the customer's cart
CartApplyCoupon ==
    \E discountAmount \in CouponAmounts :
        LET r == applyCoupon(CartOf("u1"), "SAVE", discountAmount)
        IN /\ cart' = r.doc
           /\ last' = Response("Cart.applyCoupon", discountAmount, IF r.ok THEN 200 ELSE 500,
                               IF r.ok THEN <<>> ELSE <<"Coupon discount cannot exceed subtotal">>,
                               NoOrder)
           /\ UNCHANGED <<orders, stock, now, flight>>

\* Cart.clearCart on the customer's cart
CartClear ==
    /\ cart.exists
    /\ LET r == clearCart(cart)
       IN /\ cart' = r.doc
          /\ last' = Response("Cart.clearCart", Undefined, 200, <<>>, NoOrder)
    /\ UNCHANGED <<orders, stock, now, flight>>

UpdateQuantities == {-1, 0, 1, 99, 100}
ItemIds == 1..(MaxLines + 1)
TaxRates == {-1, 10, 101}
CartShippingMethods == {"standard", "teleport"}

\* Cart.updateItemQuantity on the customer's cart, with the quantity drawn
\* from the given set.
CartUpdateItemQuantityOf(quantities) ==
    \E itemId \in ItemIds, quantity \in quantities :
        /\ cart.exists
        /\ LET r == updateItemQuantity(cart, itemId, quantity)
           IN /\ cart' = r.doc
              /\ last' = Response("Cart.updateItemQuantity", quantity,
                                  IF r.ok THEN 200 ELSE 500, <<>>, NoOrder)
        /\ UNCHANGED <<orders, stock, now, flight>>

\* Quantities around both ends of the allowed range.
CartUpdateItemQuantity == CartUpdateItemQuantityOf(UpdateQuantities)

\* Small corrections of a line's quantity.
CartAdjustItemQuantity == CartUpdateItemQuantityOf({0, 2})

\* Cart.removeItem on the customer's cart
CartRemoveItem ==
    \E itemId \in ItemIds :
        /\ cart.exists
        /\ LET r == removeItem(cart, itemId)
           IN /\ cart' = r.doc
              /\ last' = Response("Cart.removeItem", Undefined,
                                  IF r.ok THEN 200 ELSE 400, <<>>, NoOrder)
        /\ UNCHANGED <<orders, stock, now, flight>>

\* Cart.removeCoupon on the customer's cart
CartRemoveCoupon ==
    /\ cart.exists
    /\ LET r == removeCoupon(cart)
       IN /\ cart' = r.doc
          /\ last' = Response("Cart.removeCoupon", Undefined,
                              IF r.ok THEN 200 ELSE 400, <<>>, NoOrder)
    /\ UNCHANGED <<orders, stock, now, flight>>

\* Cart.calculateTax on the customer's cart
CartCalculateTax ==
    \E taxRate \in TaxRates :
        /\ cart.exists
        /\ LET r == calculateTax(cart, taxRate)
           IN /\ cart' = r.doc
              /\ last' = Response("Cart.calculateTax", Undefined,
                                  IF r.ok THEN 200 ELSE 500, <<>>, NoOrder)
        /\ UNCHANGED <<orders, stock, now, flight>>

\* Cart.calculateShipping on the customer's cart
CartCalculateShipping ==
    \E shippingMethod \in CartShippingMethods :
        /\ cart.exists
        /\ LET r == calculateShipping(cart, shippingMethod)
           IN /\ cart' = r.doc
              /\ last' = Response("Cart.calculateShipping", Undefined,
                                  IF r.ok THEN 200 ELSE 400, <<>>, NoOrder)
        /\ UNCHANGED <<orders, stock, now, flight>>

\* new Order(): a document before any path is set.
BlankOrder ==
    [userId |-> Undefined, items |-> <<>>,
     billingAddress |-> Undefined, shippingAddress |-> Undefined,
     subtotal |-> Unset, tax |-> 0, shipping |-> 0, discount |-> 0, total |-> Unset,
     paymentMethod |-> Undefined, paymentStatus |-> "pending", orderStatus |-> "pending",
     shippingMethod |-> Undefined, trackingNumber |-> Undefined,
     estimatedDelivery |-> Unset, actualDelivery |-> Unset,
     notes |-> Undefined, adminNotes |-> Undefined,
     refundReason |-> Undefined, refundAmount |-> Unset, refundDate |-> Unset,
     updatedAt |-> Unset]

\* a || b on string-valued body fields
OrElse(a, b) == IF TruthyStr(a) THEN a ELSE b

\* orderData of createOrder, as new Order(orderData) holds it: each line takes
\* productId, variantId, quantity and price from the cart line (its `total`
\* is not a path of the line schema), the rest comes from the cart and the body.
orderData(userId, body, cartDoc) ==
    [BlankOrder EXCEPT
        !.userId = userId,
        !.items = [i \in 1..Len(cartDoc.items) |->
                      [productId |-> cartDoc.items[i].productId,
                       variantId |-> cartDoc.items[i].variantId,
                       name |-> Undefined, sku |-> Undefined,
                       quantity |-> cartDoc.items[i].quantity,
                       price |-> cartDoc.items[i].price,
                       totalPrice |-> Unset]],
        !.shippingAddress = OrElse(body.shippingAddress, GetProp(cartDoc, "shippingAddress")),
        !.billingAddress = OrElse(body.billingAddress, GetProp(cartDoc, "billingAddress")),
        !.paymentMethod = body.paymentMethod,
        !.notes = body.notes,
        !.subtotal = cartDoc.subtotal,
        !.tax = cartDoc.tax,
        !.shipping = cartDoc.shipping,
        !.discount = cartDoc.discount,
        !.total = cartDoc.total]

\* validationResults.errors in createOrder: validateItems returns the array
\* of violations itself, and an array has no property `errors`.
errorsOf(validationResults) == Undefined

\* The outcome of a createOrder request: response and the three collections.
Outcome(code, err, os, c, st) ==
    [code |-> code, err |-> err, orders |-> os, cart |-> c, stock |-> st]

\* createOrder that clears the cart before it validates it.
createOrderClearsFirst(userId, body, os, c, st, t) ==
    IF ~(c.exists /\ c.userId = userId) \/ isEmpty(c)
    THEN Outcome(400, <<"Cart is empty">>, os, c, st)
    ELSE Outcome(500, <<"TypeError", "length">>, os, clearCart(c).doc, st)

\* createOrder
createOrder(userId, body, os, c, st, t) ==
    IF ~(c.exists /\ c.userId = userId) \/ isEmpty(c)
    THEN Outcome(400, <<"Cart is empty">>, os, c, st)
    ELSE LET validationResults == validateItems(c)
             errors == errorsOf(validationResults)
         IN IF errors = Undefined
            THEN Outcome(500, <<"TypeError", "length">>, os, c, st)
            ELSE IF Len(errors) > 0
            THEN Outcome(400, <<"Cart validation failed">>, os, c, st)
            ELSE LET saved == SaveOrder(BlankOrder, orderData(userId, body, c), t)
                 IN IF ~saved.ok
                    THEN Outcome(400, <<"ValidationError">>, os, c, st)
                    ELSE Outcome(201, <<>>, Append(os, saved.doc), clearCart(c).doc,
                                 AdjustInventory(st, saved.doc.items, -1))

CheckoutBodies ==
    [shippingAddress : {"addr1"}, billingAddress : {Undefined, "addr2"},
     paymentMethod : {"upi"}, notes : {Undefined}]

\* POST /orders
CreateOrder ==
    \E who \in Principals, body \in CheckoutBodies :
        LET r == createOrder(who.id, body, orders, cart, stock, now)
        IN /\ orders' = r.orders
           /\ cart' = r.cart
           /\ stock' = r.stock
           /\ last' = Response("createOrder", who.id, r.code, r.err, NoOrder)
           /\ UNCHANGED <<now, flight>>

----------------------------------------------------------------------------
(* Cart controller: controllers/cartController.ts *)

RECURSIVE SumStock(_, _)
SumStock(st, vs) ==
    IF vs = {} THEN 0
    ELSE LET v == CHOOSE x \in vs : TRUE
         IN st[v] + SumStock(st, vs \ {v})

\* product.variants.reduce((sum, variant) => sum + variant.inventory.quantity, 0)
totalStock(st) == SumStock(st, DOMAIN st)

\* A thrown AppError: its status and message.
AppError(code, message) == [code |-> code, err |-> <<message>>]
NoError == [code |-> 200, err |-> <<>>]

\* body of addToCart; quantity is 1 when the body gives none.
AddBodies ==
    [productId : Products \cup {"p9"}, variantId : {"v1", "v9", NoVariant},
     quantity : {1, 2, 3}]

\* addToCart up to the stock check: the product is looked up, then the
\* variant the body names, then the quantity is compared with the stock.
addToCartCheck(body, st) ==
    IF body.productId \notin Products
    THEN AppError(404, "Product not found or unavailable")
    ELSE IF TruthyStr(body.variantId)
    THEN IF body.variantId \notin DOMAIN st
         THEN AppError(404, "Product variant not found")
         ELSE IF st[body.variantId] < body.quantity
         THEN AppError(400, "Insufficient stock for this variant")
         ELSE NoError
    ELSE IF totalStock(st) < body.quantity
    THEN AppError(400, "Insufficient stock for this product")
    ELSE NoError

\* String({ productId, variantId, quantity }): what the one object the
\* controller passes compares as, and what the line's productId is set to.
ObjectArgument == "[object Object]"

\* cart.addItem({ productId, variantId, quantity }): the object is bound to
\* the parameter productId; variantId, quantity and price are undefined, so
\* no line matches and a line without quantity and price is pushed.
addItemOfObject(doc) == addItem(doc, ObjectArgument, NoVariant, Unset, Unset)

\* addToCart from Cart.findOne on: the cart is loaded or made, and addItem
\* saves it.
addToCartSave(doc) ==
    LET r == addItemOfObject(doc)
    IN IF r.ok THEN [code |-> 200, err |-> <<>>, doc |-> r.doc]
       ELSE [code |-> 400, err |-> <<"ValidationError">>, doc |-> doc]

\* POST /cart/items, one handler running alone.
AddToCart ==
    \E body \in AddBodies :
        LET c == addToCartCheck(body, stock)
            s == addToCartSave(CartOf("u1"))
        IN /\ IF c.code # 200
              THEN /\ UNCHANGED cart
                   /\ last' = Response("addToCart", body, c.code, c.err, NoOrder)
              ELSE /\ cart' = IF s.code = 200 THEN s.doc ELSE cart
                   /\ last' = Response("addToCart", body, s.code, s.err, NoOrder)
           /\ UNCHANGED <<orders, stock, now, flight>>

\* body.quantity and params.itemId of updateCartItem
UpdateItemBodies == [itemId : ItemIds, quantity : {0, 1, 2, 3}]

\* updateCartItem
updateCartItem(userId, body, c, st) ==
    IF body.quantity <= 0
    THEN [code |-> 400, err |-> <<"Quantity must be greater than 0">>, doc |-> c]
    ELSE IF ~(c.exists /\ c.userId = userId)
    THEN [code |-> 404, err |-> <<"Cart not found">>, doc |-> c]
    ELSE LET found == { i \in 1..Len(c.items) : c.items[i].id = body.itemId }
         IN IF found = {}
            THEN [code |-> 404, err |-> <<"Cart item not found">>, doc |-> c]
            ELSE LET cartItem == c.items[CHOOSE i \in found : TRUE]
                     short == IF TruthyStr(cartItem.variantId)
                              THEN \/ cartItem.variantId \notin DOMAIN st
                                   \/ st[cartItem.variantId] < body.quantity
                              ELSE totalStock(st) < body.quantity
                 IN IF cartItem.productId \notin Products
                    THEN [code |-> 404, err |-> <<"Product not found">>, doc |-> c]
                    ELSE IF short
                    THEN [code |-> 400, err |-> <<"Insufficient stock">>, doc |-> c]
                    ELSE LET r == updateItemQuantity(c, body.itemId, body.quantity)
                         IN IF r.ok THEN [code |-> 200, err |-> <<>>, doc |-> r.doc]
                            ELSE [code |-> 500, err |-> <<"Error">>, doc |-> c]

\* PUT /cart/items/:itemId
UpdateCartItem ==
    \E body \in UpdateItemBodies :
        LET r == updateCartItem("u1", body, cart, stock)
        IN /\ cart' = r.doc
           /\ last' = Response("updateCartItem", body, r.code, r.err, NoOrder)
           /\ UNCHANGED <<orders, stock, now, flight>>

\* addToCart, step by step: the handler is suspended at each await.
\* First step: the request arrives, the product is read and the stock checked.
AddToCartCheck ==
    \E r \in Requests, body \in AddBodies :
        /\ flight[r].pc = "idle"
        /\ LET c == addToCartCheck(body, stock)
               started == [IdleRequest EXCEPT !.op = "addToCart", !.userId = "u1",
                                              !.body = body]
           IN IF c.code # 200
              THEN /\ flight' = [flight EXCEPT ![r] =
                                    [started EXCEPT !.pc = "done", !.code = c.code]]
                   /\ last' = Response("addToCart", body, c.code, c.err, NoOrder)
              ELSE /\ flight' = [flight EXCEPT ![r] = [started EXCEPT !.pc = "findCart"]]
                   /\ last' = Response("addToCart", body, 0, <<>>, NoOrder)
        /\ UNCHANGED <<orders, cart, stock, now>>

\* Second step: Cart.findOne({ userId }), or a new Cart.
AddToCartLoad ==
    \E r \in Requests :
        /\ flight[r].op = "addToCart" /\ flight[r].pc = "findCart"
        /\ flight' = [flight EXCEPT ![r].pc = "addItem", ![r].doc = CartOf(flight[r].userId)]
        /\ last' = Response("addToCart", flight[r].body, 0, <<>>, NoOrder)
        /\ UNCHANGED <<orders, cart, stock, now>>

\* Third step: cart.addItem saves the document the handler holds.
AddToCartSave ==
    \E r \in Requests :
        /\ flight[r].op = "addToCart" /\ flight[r].pc = "addItem"
        /\ LET s == addToCartSave(flight[r].doc)
           IN /\ cart' = IF s.code = 200 THEN s.doc ELSE cart
              /\ flight' = [flight EXCEPT ![r].pc = "done", ![r].code = s.code,
                                          ![r].doc = s.doc]
              /\ last' = Response("addToCart", flight[r].body, s.code, s.err, NoOrder)
        /\ UNCHANGED <<orders, stock, now>>

\* The cart documents a second customer can have stored: none, or one line
\* of the variant v1 put there by addItem.  `cart` is the document of the
\* first customer.
OtherCarts ==
    {NewCart("u2")} \cup { addItem(NewCart("u2"), "p1", "v1", q, 50).doc : q \in 1..2 }

\* The handler of request r ends with this status.
Finished(r, code) == [flight EXCEPT ![r].pc = "done", ![r].code = code]

\* createOrder, step by step.  First step: the request arrives and
\* Cart.findOne({ userId }) yields the customer's cart.
CheckoutLoad ==
    \E r \in Requests, userId \in {"u1", "u2"}, body \in CheckoutBodies :
    \E doc \in IF userId = "u1" THEN {CartOf("u1")} ELSE OtherCarts :
        /\ flight[r].pc = "idle"
        /\ flight' = [flight EXCEPT ![r] =
                         [IdleRequest EXCEPT !.op = "createOrder", !.pc = "loaded",
                                             !.userId = userId, !.body = body, !.doc = doc]]
        /\ last' = Response("createOrder", userId, 0, <<>>, NoOrder)
        /\ UNCHANGED <<orders, cart, stock, now>>

\* The handler resumes where it is suspended: after Cart.findOne it checks
\* the cart and saves the order; after order.save() it clears the cart; then,
\* line by line, it reads the product and saves it with the variant's
\* quantity lowered.
CheckoutResume ==
    \E r \in Requests :
        LET f == flight[r]
        IN /\ f.op = "createOrder"
           /\ f.pc \in {"loaded", "saved", "cleared", "read"}
           /\ UNCHANGED now
           /\ IF f.pc = "loaded"
              THEN LET validationResults == validateItems(f.doc)
                       errors == errorsOf(validationResults)
                       saved == SaveOrder(BlankOrder, orderData(f.userId, f.body, f.doc), now)
                       code == IF ~f.doc.exists \/ isEmpty(f.doc) THEN 400
                               ELSE IF errors = Undefined THEN 500
                               ELSE IF Len(errors) > 0 THEN 400
                               ELSE IF ~saved.ok THEN 400 ELSE 0
                   IN /\ UNCHANGED <<cart, stock>>
                      /\ last' = Response("createOrder", f.userId, code, <<>>, NoOrder)
                      /\ IF code # 0
                         THEN /\ UNCHANGED orders
                              /\ flight' = [Finished(r, code) EXCEPT
                                               ![r].validationResults = validationResults]
                         ELSE /\ orders' = Append(orders, saved.doc)
                              /\ flight' = [flight EXCEPT
                                               ![r].pc = "saved",
                                               ![r].validationResults = validationResults,
                                               ![r].order = Len(orders) + 1]
              ELSE IF f.pc = "saved"
              THEN /\ cart' = IF cart.userId = f.userId THEN clearCart(f.doc).doc ELSE cart
                   /\ flight' = [flight EXCEPT ![r].pc = "cleared", ![r].line = 1,
                                               ![r].doc = clearCart(f.doc).doc]
                   /\ last' = Response("createOrder", f.userId, 0, <<>>, f.order)
                   /\ UNCHANGED <<orders, stock>>
              ELSE IF f.pc = "cleared"
              THEN /\ UNCHANGED <<orders, cart, stock>>
                   /\ IF f.line > Len(orders[f.order].items)
                      THEN /\ flight' = Finished(r, 201)
                           /\ last' = Response("createOrder", f.userId, 201, <<>>, f.order)
                      ELSE /\ flight' = [flight EXCEPT ![r].pc = "read", ![r].product = stock]
                           /\ last' = Response("createOrder", f.userId, 0, <<>>, f.order)
              ELSE LET item == orders[f.order].items[f.line]
                   IN /\ stock' = IF item.variantId # NoVariant /\ item.variantId \in DOMAIN stock
                                  THEN [stock EXCEPT ![item.variantId] =
                                           f.product[item.variantId] - item.quantity]
                                  ELSE stock
                      /\ flight' = [flight EXCEPT ![r].pc = "cleared", ![r].line = f.line + 1]
                      /\ last' = Response("createOrder", f.userId, 0, <<>>, f.order)
                      /\ UNCHANGED <<orders, cart>>

NextPayment ==
    \/ ConfirmPayment
    \/ HandleWebhook
    \/ PaymentProcessRefund

NextCheckout ==
    \/ CartAddItem
    \/ CartApplyCoupon
    \/ CartClear
    \/ CreateOrder

\* The status methods as the staff endpoints drive them, over time.
SpecStatus == Init /\ [][NextStatus]_vars

\* Every staff operation and payment event on the stored orders.
SpecOrder == Init /\ [][NextOrder \/ NextPayment]_vars

\* The payment events and the staff payment-status endpoint, over time.
SpecPayment == Init /\ [][NextPayment \/ UpdatePaymentStatus \/ Tick]_vars

Next == NextOrder \/ NextPayment \/ NextCheckout \/ Tick

Spec == Init /\ [][Next]_vars

SpecCheckout == Init /\ [][NextCheckout]_vars

NextIntent ==
    \/ CreatePaymentIntent
    \/ UpdatePaymentStatus
    \/ UpdateOrderStatus

\* Payment intents requested for an order as staff move its two statuses.
SpecIntent == Init /\ [][NextIntent]_vars

NextCancel ==
    \/ CancelOrder
    \/ UpdateOrderStatus
    \/ Tick

\* Cancel requests on an order as staff move it to delivery and time passes.
SpecCancel == Init /\ [][NextCancel]_vars

NextRefund ==
    \/ OrderProcessRefund
    \/ PaymentProcessRefund
    \/ HandleWebhook
    \/ UpdatePaymentStatus
    \/ UpdateOrderStatus

\* The three ways a refund is requested, as staff move the two statuses.
SpecRefund == Init /\ [][NextRefund]_vars

NextOrderTotals ==
    \/ OrderCalculateShipping
    \/ UpdateOrder
    \/ UpdateOrderStatus

\* The order's shipping cost as staff change its shipping method and status.
SpecOrderTotals == Init /\ [][NextOrderTotals]_vars

NextCart ==
    \/ CartAddUnit
    \/ CartAdjustItemQuantity
    \/ CartRemoveItem
    \/ CartClear
    \/ CartApplyCoupon
    \/ CartRemoveCoupon
    \/ CartCalculateTax
    \/ CartCalculateShipping

\* The cart methods on the customer's cart.
SpecCart == Init /\ [][NextCart]_vars

NextCartLines ==
    \/ CartAddUnit
    \/ CartUpdateItemQuantity
    \/ CartRemoveItem
    \/ CartClear

\* The line operations of the cart, with quantities up to the cap and past it.
SpecCartLines == Init /\ [][NextCartLines]_vars

NextCheckoutRace ==
    \/ CartAddUnit
    \/ CheckoutLoad
    \/ CheckoutResume

\* Two checkouts in flight at the same time; the event loop resumes every
\* suspended handler.
SpecCheckoutRace ==
    Init /\ [][NextCheckoutRace]_vars /\ WF_vars(CheckoutResume)

NextCartRequests ==
    \/ AddToCart
    \/ UpdateCartItem
    \/ CartAddUnit
    \/ CartRemoveItem

\* The cart requests of one customer, one after the other, on carts with
\* and without lines.
SpecCartRequests == Init /\ [][NextCartRequests]_vars

NextCartRace ==
    \/ AddToCartCheck
    \/ AddToCartLoad
    \/ AddToCartSave

\* Two addToCart requests of one customer in flight at the same time.
SpecCartRace == Init /\ [][NextCartRace]_vars

----------------------------------------------------------------------------
(* Properties *)

OrderStatusEdges ==
    { <<"pending", "confirmed">>, <<"pending", "cancelled">>,
      <<"confirmed", "processing">>, <<"confirmed", "cancelled">>,
      <<"processing", "shipped">>, <<"processing", "cancelled">>,
      <<"shipped", "delivered">>, <<"shipped", "returned">>,
      <<"delivered", "returned">> }

PaymentStatusEdges ==
    { <<"pending", "processing">>, <<"pending", "completed">>, <<"pending", "failed">>,
      <<"processing", "completed">>, <<"processing", "failed">>,
      <<"completed", "refunded">>,
      <<"failed", "pending">> }

\* C1: updateStatus(newStatus) succeeds exactly when (current orderStatus,
\* newStatus) is an edge of the order-status table; every other pair, and
\* every call on a cancelled or returned order, is rejected.  Checked for
\* every stored order in every reachable state, and on every step of the
\* status endpoint: it answers 200 only along an edge and otherwise leaves
\* the order as it was.
C1_Theorem ==
    /\ [](\A id \in OrderIds, newStatus \in StatusInputs, notes \in NotesInputs :
            updateStatus(orders[id], newStatus, notes, now).ok
                <=> <<orders[id].orderStatus, newStatus>> \in OrderStatusEdges)
    /\ [][last'.op = "updateOrderStatus" /\ last'.target # NoOrder =>
            IF last'.code = 200
            THEN <<orders[last'.target].orderStatus, orders'[last'.target].orderStatus>>
                    \in OrderStatusEdges
            ELSE orders' = orders]_vars

\* An updateStatus call was rejected on a cancelled order.
C1_Witness ==
    /\ last.op = "updateOrderStatus" /\ last.code = 500 /\ last.target # NoOrder
    /\ orders[last.target].orderStatus = "cancelled"

\* C2: updatePaymentStatus(newStatus) succeeds exactly when (current
\* paymentStatus, newStatus) is an edge of the payment table and is rejected
\* otherwise; on a refunded order every call is rejected.
C2_Theorem ==
    /\ [](\A id \in OrderIds, newStatus \in PaymentStatusInputs :
            updatePaymentStatus(orders[id], newStatus, now).ok
                <=> <<orders[id].paymentStatus, newStatus>> \in PaymentStatusEdges)
    /\ [][last'.op = "updatePaymentStatus" /\ last'.target # NoOrder =>
            IF last'.code = 200
            THEN <<orders[last'.target].paymentStatus, orders'[last'.target].paymentStatus>>
                    \in PaymentStatusEdges
            ELSE orders' = orders]_vars

\* An updatePaymentStatus call was rejected on a refunded order.
C2_Witness ==
    /\ last.op = "updatePaymentStatus" /\ last.code = 500 /\ last.target # NoOrder
    /\ orders[last.target].paymentStatus = "refunded"

\* C3 (as claimed): over the staff operations and payment events, every
\* change of an order's orderStatus is an edge of the order-status table.
C3_Claim ==
    [][\A id \in OrderIds :
          orders'[id].orderStatus # orders[id].orderStatus =>
              <<orders[id].orderStatus, orders'[id].orderStatus>> \in OrderStatusEdges]_vars

\* C4 (as claimed): over the payment events and staff operations, every
\* change of an order's paymentStatus is an edge of the payment table.
C4_Claim ==
    [][\A id \in OrderIds :
          orders'[id].paymentStatus # orders[id].paymentStatus =>
              <<orders[id].paymentStatus, orders'[id].paymentStatus>> \in PaymentStatusEdges]_vars

\* C5: an updateStatus call either succeeds and leaves orderStatus equal to
\* the requested value, or fails with the error naming the transition and
\* leaves the order (orderStatus, adminNotes, estimatedDelivery,
\* actualDelivery) as it was; the status endpoint stores nothing when it fails.
C5_Theorem ==
    /\ [](\A id \in OrderIds, newStatus \in StatusInputs, notes \in NotesInputs :
            LET r == updateStatus(orders[id], newStatus, notes, now)
            IN IF r.ok
               THEN r.doc.orderStatus = newStatus
               ELSE /\ r.doc.orderStatus = orders[id].orderStatus
                    /\ r.doc.adminNotes = orders[id].adminNotes
                    /\ r.doc.estimatedDelivery = orders[id].estimatedDelivery
                    /\ r.doc.actualDelivery = orders[id].actualDelivery
                    /\ r.err = <<"Invalid status transition", orders[id].orderStatus, newStatus>>)
    /\ [][last'.op = "updateOrderStatus" /\ last'.code # 200 => orders' = orders]_vars

\* updateStatus('shipped') was just rejected on an order that is still pending.
C5_Witness ==
    /\ last.op = "updateOrderStatus" /\ last.code = 500 /\ last.target # NoOrder
    /\ orders[last.target].orderStatus = "pending"
    /\ ~updateStatus(orders[last.target], "shipped", Undefined, now).ok

\* C6: a createOrder request that does not answer 201 (cart missing or
\* empty, cart validation not passed) changes no order, no stock quantity
\* and not the cart.
C6_Theorem ==
    [][last'.op = "createOrder" /\ last'.code # 201 =>
          /\ orders' = orders
          /\ stock' = stock
          /\ cart' = cart]_vars

\* A checkout of the customer's empty cart was just rejected.
C6_Witness ==
    /\ last.op = "createOrder" /\ last.code = 400 /\ last.arg = "u1"
    /\ cart.exists /\ isEmpty(cart)

\* The cart a checkout of `userId` would take: present, theirs, not empty,
\* without violations.
ValidCartOf(userId) ==
    /\ cart.exists /\ cart.userId = userId /\ ~isEmpty(cart)
    /\ validateItems(cart) = <<>>

\* C7 (as claimed): a checkout of a valid non-empty cart creates exactly one
\* order, pending/pending, whose total is the cart's total, and empties the cart.
C7_Claim ==
    [][last'.op = "createOrder" /\ ValidCartOf(last'.arg) =>
          /\ last'.code = 201
          /\ Len(orders') = Len(orders) + 1
          /\ orders'[Len(orders')].orderStatus = "pending"
          /\ orders'[Len(orders')].paymentStatus = "pending"
          /\ orders'[Len(orders')].total = cart.total
          /\ isEmpty(cart')]_vars

\* C8 (as claimed): after a checkout the new order has, for every cart line
\* with quantity in 1..99, a line with the same product, variant, quantity,
\* unit price and line total.
C8_Claim ==
    [][last'.op = "createOrder" /\ ValidCartOf(last'.arg) =>
          /\ Len(orders') > Len(orders)
          /\ \A i \in 1..Len(cart.items) :
                cart.items[i].quantity \in 1..MaxCartQuantity =>
                    \E j \in 1..Len(orders'[Len(orders')].items) :
                        LET line == orders'[Len(orders')].items[j]
                        IN /\ line.productId = cart.items[i].productId
                           /\ line.variantId = cart.items[i].variantId
                           /\ line.quantity = cart.items[i].quantity
                           /\ line.price = cart.items[i].price
                           /\ line.totalPrice = cart.items[i].price * cart.items[i].quantity]_vars

\* C9 (as claimed): once a signed payment-succeeded event has been handled
\* for an order, however often, the delivery is acknowledged and the order's
\* paymentStatus is completed.
C9_Claim ==
    (/\ last.op = "handleWebhook"
     /\ last.arg.signed
     /\ last.arg.type = "payment_intent.succeeded"
     /\ last.target # NoOrder)
        => /\ last.code = 200
           /\ orders[last.target].paymentStatus = "completed"

\* C10: a webhook delivery whose signature does not verify is answered 400
\* before any handling: no handler runs, no order is loaded or changed.
C10_Theorem ==
    [][last'.op = "handleWebhook" /\ ~last'.arg.signed =>
          /\ last'.code = 400
          /\ last'.arg.handler = "none"
          /\ last'.target = NoOrder
          /\ orders' = orders]_vars

\* An unsigned payment-failed event was just rejected.
C10_Witness ==
    /\ last.op = "handleWebhook"
    /\ ~last.arg.signed
    /\ last.arg.type = "payment_intent.payment_failed"
    /\ last.code = 400

\* C11 (as claimed): a correctly signed event of a recognized type whose
\* effect is not applied to an order (the handler threw, or it located no
\* order) is answered with a 5xx, never acknowledged as received.
C11_Claim ==
    (/\ last.op = "handleWebhook"
     /\ last.arg.signed
     /\ last.arg.handler # "none"
     /\ last.target = NoOrder)
        => last.code \in 500..599

\* C12: after every persisted cart operation the stored cart has subtotal
\* equal to the sum of its line totals and total equal to
\* max(0, subtotal + tax + shipping - discount - couponDiscount).
C12_Theorem ==
    cart.exists =>
        LET due == cart.subtotal + cart.tax + cart.shipping - cart.discount - cart.couponDiscount
        IN /\ cart.subtotal = SumTotalPrice(cart.items)
           /\ cart.total = IF due > 0 THEN due ELSE 0

\* A line was removed from a cart whose coupon now exceeds what is left, so
\* the total is held at zero.
C12_Witness ==
    /\ cart.exists /\ last.op = "Cart.removeItem" /\ last.code = 200
    /\ Len(cart.items) = 1
    /\ cart.subtotal + cart.tax + cart.shipping - cart.discount - cart.couponDiscount < 0
    /\ cart.total = 0

\* total = max(0, subtotal + tax + shipping - discount) on an order document.
OrderTotalHolds(doc) ==
    LET due == doc.subtotal + doc.tax + doc.shipping - doc.discount
    IN doc.total = IF due > 0 THEN due ELSE 0

\* Data handed to new Order(...): an order's paths with any amounts.
NewOrderData ==
    { [InitOrder EXCEPT !.subtotal = s, !.tax = x, !.discount = d, !.total = tt] :
        s \in {0, 100}, x \in {0, 5}, d \in {0, 500}, tt \in {0, 7, 100} }

\* C13: every stored order has total = max(0, subtotal + tax + shipping -
\* discount): an order just created by a save of new data, and every order
\* after any later save, such as the one of calculateShipping.
C13_Theorem ==
    /\ \A id \in OrderIds : OrderTotalHolds(orders[id])
    /\ \A data \in NewOrderData :
          LET r == SaveOrder(BlankOrder, data, now)
          IN r.ok /\ OrderTotalHolds(r.doc)

\* calculateShipping stored a shipping cost of the express method on an order.
C13_Witness ==
    /\ last.op = "Order.calculateShipping" /\ last.code = 200
    /\ orders[last.target].shippingMethod = "express"
    /\ orders[last.target].shipping = 210
    /\ orders[last.target].total = 310

\* The (product, variant) pair of a cart line.
PairOf(item) == <<item.productId, item.variantId>>

\* C14: a cart never holds two lines of the same (product, variant) pair,
\* and a successful addItem either appends a line of a pair the cart did not
\* hold or adds the quantity to the one line of that pair, leaving the
\* number of lines as it was.
C14_Theorem ==
    /\ [](\A i, j \in 1..Len(cart.items) :
            PairOf(cart.items[i]) = PairOf(cart.items[j]) => i = j)
    /\ [][last'.op = "Cart.addItem" /\ last'.code = 200 =>
            \/ /\ Len(cart'.items) = Len(cart.items) + 1
               /\ \A i \in 1..Len(cart.items) :
                     /\ cart'.items[i] = cart.items[i]
                     /\ PairOf(cart.items[i]) # PairOf(cart'.items[Len(cart'.items)])
               /\ cart'.items[Len(cart'.items)].quantity = last'.arg
            \/ /\ Len(cart'.items) = Len(cart.items)
               /\ \E i \in 1..Len(cart.items) :
                     /\ PairOf(cart'.items[i]) = PairOf(cart.items[i])
                     /\ cart'.items[i].quantity = cart.items[i].quantity + last'.arg
                     /\ \A j \in 1..Len(cart.items) : j # i => cart'.items[j] = cart.items[j]]_vars

\* Two addItem calls of one unit for the same pair left one line of two units.
C14_Witness ==
    /\ last.op = "Cart.addItem" /\ last.code = 200 /\ last.arg = 1
    /\ Len(cart.items) = 1
    /\ cart.items[1].quantity = 2
    /\ cart.subtotal = 2 * cart.items[1].price

\* C15 (as claimed): a stored cart without lines has subtotal, tax,
\* shipping, discount and total all zero, however it became empty.
C15_Claim ==
    (cart.exists /\ isEmpty(cart)) =>
        /\ cart.subtotal = 0 /\ cart.tax = 0 /\ cart.shipping = 0
        /\ cart.discount = 0 /\ cart.total = 0

\* C16: updateItemQuantity(item, q) fails for q <= 0 and for q >= 100 and
\* succeeds for q = 99 on a line of the cart; a failing call, also one for a
\* line the cart does not hold, leaves the cart's lines and totals as they were.
C16_Theorem ==
    /\ [](cart.exists =>
            \A itemId \in ItemIds, q \in UpdateQuantities :
                LET r == updateItemQuantity(cart, itemId, q)
                    held == \E i \in 1..Len(cart.items) : cart.items[i].id = itemId
                IN /\ (q <= 0 \/ q >= 100) => ~r.ok
                   /\ (q = 99 /\ held) =>
                         /\ r.ok
                         /\ \E i \in 1..Len(r.doc.items) :
                               /\ r.doc.items[i].id = itemId
                               /\ r.doc.items[i].quantity = 99
                   /\ ~held => ~r.ok
                   /\ ~r.ok => r.doc = cart)
    /\ [][last'.op = "Cart.updateItemQuantity" =>
            /\ (last'.arg <= 0 \/ last'.arg >= 100) => last'.code # 200
            /\ last'.code # 200 => cart' = cart]_vars

\* updateItemQuantity just set a line to 99 units.
C16_Witness ==
    /\ last.op = "Cart.updateItemQuantity" /\ last.code = 200 /\ last.arg = 99
    /\ \E i \in 1..Len(cart.items) :
          cart.items[i].quantity = 99 /\ cart.items[i].totalPrice = 99 * cart.items[i].price

\* C17 (as claimed): createPaymentIntent for an order whose payment is
\* completed, or that is cancelled, is rejected without a call to the
\* payment processor and without a change to the order.
C17_Claim ==
    [][(/\ last'.op = "createPaymentIntent"
        /\ last'.target # NoOrder
        /\ \/ orders[last'.target].paymentStatus = "completed"
           \/ orders[last'.target].orderStatus = "cancelled")
          => /\ last'.code \in 400..499
             /\ ~last'.arg.called
             /\ orders' = orders]_vars

\* C18 (as claimed): when the processor reports success for confirmPayment
\* on a located order whose paymentStatus is pending or processing, the
\* stored order ends with paymentStatus completed, paidAt set and the
\* processor's charge identifier recorded.
C18_Claim ==
    [][(/\ last'.op = "confirmPayment"
        /\ last'.arg = "succeeded"
        /\ last'.target # NoOrder
        /\ orders[last'.target].paymentStatus \in {"pending", "processing"})
          => /\ orders'[last'.target].paymentStatus = "completed"
             /\ GetProp(orders'[last'.target], "paidAt") # Undefined
             /\ GetProp(orders'[last'.target], "transactionId") # Undefined]_vars

\* C19: when the processor call of confirmPayment, or of the payment
\* controller's processRefund, throws or reports a status other than
\* success, the stored orders are left exactly as they were and the request
\* is answered with the failure.
C19_Theorem ==
    [][/\ (last'.op = "confirmPayment" /\ last'.arg # "succeeded") =>
              /\ orders' = orders
              /\ last'.code \in 400..499
       /\ (last'.op = "paymentProcessRefund" /\ last'.arg = "throws") =>
              /\ orders' = orders
              /\ last'.code \in 400..499]_vars

\* The processor threw during confirmPayment while the order's payment was
\* processing, and the order still says so.
C19_Witness ==
    /\ last.op = "confirmPayment" /\ last.arg = "throws" /\ last.code = 400
    /\ \E id \in OrderIds : orders[id].paymentStatus = "processing"

\* Amounts of a refund request around the order total.
C20_Amounts == RefundAmounts \cup {100, 101}

C21_Claim ==
    [][(/\ last'.op = "orderProcessRefund"
        /\ last'.code = 200
        /\ orders[last'.target].paymentStatus = "completed")
          => /\ orders'[last'.target].refundAmount = last'.arg
             /\ orders'[last'.target].refundReason = "damaged"
             /\ orders'[last'.target].refundDate = now
             /\ orders'[last'.target].paymentStatus = "refunded"]_vars

\* C22 (as claimed): a cancel request on an order that is not refundable, or
\* whose orderStatus is cancelled or returned, fails with 400 and changes
\* neither the order nor any stock quantity; a cancel request that succeeds
\* leaves the order with orderStatus cancelled.
C22_Claim ==
    [][(last'.op = "cancelOrder" /\ last'.target # NoOrder) =>
          IF \/ ~isRefundable(orders[last'.target], now)
             \/ orders[last'.target].orderStatus \in {"cancelled", "returned"}
          THEN last'.code = 400 /\ orders' = orders /\ stock' = stock
          ELSE last'.code = 200 => orders'[last'.target].orderStatus = "cancelled"]_vars

\* C23: no staff operation, payment request or payment event changes the
\* line items of a stored order (product, variant, quantity, price, line
\* total) or its billing and shipping addresses.
C23_Theorem ==
    [][\A id \in OrderIds :
          /\ orders'[id].items = orders[id].items
          /\ orders'[id].billingAddress = orders[id].billingAddress
          /\ orders'[id].shippingAddress = orders[id].shippingAddress]_vars

\* The admin updateOrder just stored another shipping method on an order
\* whose lines and addresses are those of its creation.
C23_Witness ==
    /\ last.op = "updateOrder" /\ last.code = 200 /\ last.target # NoOrder
    /\ orders[last.target].shippingMethod = "express"
    /\ orders[last.target].items = InitOrder.items
    /\ orders[last.target].billingAddress = InitOrder.billingAddress
    /\ orders[last.target].shippingAddress = InitOrder.shippingAddress

\* The two checkouts are suspended with their carts loaded: different
\* customers, one valid line of the variant v1 each, each quantity within
\* the stock and the two together above it.
BothLoaded ==
    /\ \A r \in Requests :
          /\ flight[r].op = "createOrder" /\ flight[r].pc = "loaded"
          /\ Len(flight[r].doc.items) = 1
          /\ flight[r].doc.items[1].variantId = "v1"
          /\ flight[r].doc.items[1].quantity <= stock["v1"]
          /\ validateItems(flight[r].doc) = <<>>
    /\ flight[1].userId # flight[2].userId
    /\ flight[1].doc.items[1].quantity + flight[2].doc.items[1].quantity > stock["v1"]

\* Both checkouts have ended with their order stored.
BothPersisted ==
    \A r \in Requests :
        /\ flight[r].pc = "done" /\ flight[r].code = 201
        /\ flight[r].order \in OrderIds

\* C24 (as claimed): two checkouts of different customers for the same
\* variant, each within the stock and together above it, that have both
\* passed validation before either lowers the stock both end with their
\* order stored, so that more is sold than was in stock.
C24_Claim == BothLoaded ~> BothPersisted

\* The quantity the lines of `items` with a variant in `vs` add up to.
RECURSIVE LinesQuantity(_, _)
LinesQuantity(items, vs) ==
    IF items = <<>> THEN 0
    ELSE (IF Head(items).variantId \in vs THEN Head(items).quantity ELSE 0)
           + LinesQuantity(Tail(items), vs)

\* C25 (as claimed): a successful checkout of a valid cart lowers the stock
\* by the quantity of every line, the lines without a variant included: each
\* variant loses at least what its own lines hold, and the stock of the
\* product as a whole loses exactly the sum of all lines.
C25_Claim ==
    [][last'.op = "createOrder" /\ ValidCartOf(last'.arg) =>
          /\ last'.code = 201
          /\ \A v \in Variants :
                stock[v] - stock'[v] >= LinesQuantity(cart.items, {v})
          /\ totalStock(stock) - totalStock(stock')
                = LinesQuantity(cart.items, Variants \cup {NoVariant})]_vars

\* C26 (as claimed): the order a checkout creates has the cart's subtotal,
\* tax, shipping, discount and total, the coupon included:
\* order.total = cart.total = max(0, subtotal + tax + shipping - discount
\* - couponDiscount).
C26_Claim ==
    [][last'.op = "createOrder" /\ ValidCartOf(last'.arg) =>
          /\ Len(orders') = Len(orders) + 1
          /\ LET order == orders'[Len(orders')]
                 tot == cart.subtotal + cart.tax + cart.shipping
                          - cart.discount - cart.couponDiscount
             IN /\ order.subtotal = cart.subtotal
                /\ order.tax = cart.tax
                /\ order.shipping = cart.shipping
                /\ order.discount = cart.discount
                /\ order.total = cart.total
                /\ cart.total = IF tot < 0 THEN 0 ELSE tot]_vars

\* C27 (as claimed): the cancellations of an order never put back more of a
\* variant than the order's lines took from it, however often the order is
\* cancelled: the stock never rises above the stock after the checkout plus
\* the quantity of the order's lines.
C27_Claim ==
    \A v \in Variants :
        stock[v] - InitStock[v] <= LinesQuantity(orders[1].items, {v})

\* C28 (as claimed): the coupon discount of a cart never exceeds the cart's
\* subtotal, whatever is removed from the cart or lowered after the coupon
\* was applied.
C28_Claim == cart.couponDiscount <= cart.subtotal

\* The stock a cart line of the variant is compared with: the variant's
\* quantity, or the sum over the variants for a line without a variant.
StockOfPair(st, variantId) ==
    IF TruthyStr(variantId) THEN st[variantId] ELSE totalStock(st)

\* The lines of the cart document for the product and variant.
LinesOfPair(doc, productId, variantId) ==
    { i \in 1..Len(doc.items) :
        /\ doc.items[i].productId = productId
        /\ doc.items[i].variantId = variantId }

\* C29 (as claimed): with the stock unchanged, an addToCart request that
\* passes the product and stock checks succeeds and leaves a line of its
\* pair, and after it, as after a successful updateCartItem, no line of the
\* pair holds more than the stock of the pair.
C29_Claim ==
    [][/\ (last'.op = "addToCart" /\ addToCartCheck(last'.arg, stock).code = 200) =>
            /\ last'.code = 200
            /\ LinesOfPair(cart', last'.arg.productId, last'.arg.variantId) # {}
            /\ \A i \in LinesOfPair(cart', last'.arg.productId, last'.arg.variantId) :
                  cart'.items[i].quantity <= StockOfPair(stock, last'.arg.variantId)
       /\ (last'.op = "updateCartItem" /\ last'.code = 200) =>
            \A i \in 1..Len(cart'.items) :
                cart'.items[i].id = last'.arg.itemId =>
                    cart'.items[i].quantity
                        <= StockOfPair(stock, cart'.items[i].variantId)]_vars

\* C30 (as claimed): once two addToCart requests of the customer for the
\* same product and variant, both within the stock, have ended, in whatever
\* order their steps ran, the cart holds exactly one line of the pair and
\* its quantity is the sum of the two.
C30_Claim ==
    (/\ \A r \in Requests :
           /\ flight[r].op = "addToCart" /\ flight[r].pc = "done"
           /\ addToCartCheck(flight[r].body, stock).code = 200
     /\ flight[1].body.productId = flight[2].body.productId
     /\ flight[1].body.variantId = flight[2].body.variantId)
        => LET lines == LinesOfPair(cart, flight[1].body.productId,
                                    flight[1].body.variantId)
           IN /\ Cardinality(lines) = 1
              /\ \A i \in lines :
                    cart.items[i].quantity
                        = flight[1].body.quantity + flight[2].body.quantity

====
